---------------------------- MODULE Spec2Model ----------------------------
(***************************************************************************)
(* ApplicationsAPI (src/api/ApplicationsAPI.js): the ARI /applications     *)
(* resource client.  Four methods build one request each and hand it to a  *)
(* request function pre-bound with basic-auth credentials and json: true.  *)
(*                                                                         *)
(* JavaScript values are tagged records [t, v].  A string is a sequence of *)
(* characters; a token such as "app1" stands for a run of characters that  *)
(* encodeURIComponent leaves alone (letters and digits).                   *)
(***************************************************************************)
EXTENDS Naturals, Sequences, FiniteSets, TLC

VARIABLES
    constructed,  \* the params object the constructor was called with
    this,         \* the instance: _baseUrl and the defaults bound in _request
    input,        \* the params object under test (SpecReq)
    calls,        \* the method calls made so far, in call order
    requests,     \* the options objects handed to the HTTP layer, in order
    answers       \* per request: "none" or the outcome the HTTP layer produced

vars == <<constructed, this, input, calls, requests, answers>>

---------------------------------------------------------------------------
(* Bounds of the model.                                                    *)

MaxCalls == 2        \* calls made on one client in a behaviour of Spec
MaxNameLen == 3      \* characters of an applicationName under test
MaxSources == 2      \* elements of an eventSource array under test

---------------------------------------------------------------------------
(* JavaScript values.                                                      *)

Undefined == [t |-> "undefined", v |-> <<>>]
Str(s) == [t |-> "string", v |-> s]
Arr(a) == [t |-> "array", v |-> a]

\* A lone UTF-16 surrogate: a legal character of a JavaScript string that
\* has no UTF-8 encoding.
LoneSurrogate == "<D800>"

RECURSIVE SeqsUpTo(_, _)
SeqsUpTo(S, n) ==
    IF n = 0 THEN {<<>>}
    ELSE LET shorter == SeqsUpTo(S, n - 1)
         IN  shorter \cup {Append(s, c) : s \in shorter, c \in S}

RECURSIVE Flatten(_)
Flatten(ss) == IF ss = <<>> THEN <<>> ELSE Head(ss) \o Flatten(Tail(ss))

\* String(x), as a template literal or encodeURIComponent applies it.
StringOf(x) == IF x.t = "undefined" THEN <<"undefined">> ELSE x.v

---------------------------------------------------------------------------
(* encodeURIComponent (lines 59, 91, 119).                                 *)

\* As encodeURI would: the URI delimiters / ? # : , are left as they are.
EscapeCharAsEncodeURI(c) ==
    CASE c = " " -> <<"%", "2", "0">>
      [] c = "%" -> <<"%", "2", "5">>
      [] OTHER -> <<c>>

\* Every character but A-Z a-z 0-9 - _ . ! ~ * ' ( ) is replaced by the
\* percent-escapes of its UTF-8 bytes.
EscapeChar(c) ==
    CASE c = " " -> <<"%", "2", "0">>
      [] c = "#" -> <<"%", "2", "3">>
      [] c = "%" -> <<"%", "2", "5">>
      [] c = "," -> <<"%", "2", "C">>
      [] c = "/" -> <<"%", "2", "F">>
      [] c = ":" -> <<"%", "3", "A">>
      [] c = "?" -> <<"%", "3", "F">>
      [] OTHER -> <<c>>

\* [threw, v]: a URIError when the string holds a lone surrogate, else the
\* escaped string.
encodeURIComponent(x) ==
    LET s == StringOf(x)
    IN  IF \E i \in 1..Len(s) : s[i] = LoneSurrogate
        THEN [threw |-> TRUE, v |-> <<"URIError">>]
        ELSE [threw |-> FALSE,
              v |-> Flatten([i \in 1..Len(s) |-> EscapeChar(s[i])])]

---------------------------------------------------------------------------
(* [].concat(eventSource).join(",") (lines 96, 124).                       *)

\* [].concat(x): the elements of an array x, else the one-element array [x].
Concat(x) ==
    IF x.t = "array" THEN [i \in 1..Len(x.v) |-> Str(x.v[i])] ELSE <<x>>

\* As a join that walks the array from its end.
RECURSIVE JoinReversed(_, _)
JoinReversed(a, sep) ==
    IF a = <<>> THEN <<>>
    ELSE LET x == a[Len(a)]
             last == IF x.t = "undefined" THEN <<>> ELSE StringOf(x)
         IN  IF Len(a) = 1 THEN last
             ELSE last \o <<sep>> \o JoinReversed(SubSeq(a, 1, Len(a) - 1), sep)

\* Array.prototype.join: undefined elements contribute the empty string.
RECURSIVE Join(_, _)
Join(a, sep) ==
    IF a = <<>> THEN <<>>
    ELSE LET first == IF Head(a).t = "undefined" THEN <<>> ELSE StringOf(Head(a))
         IN  IF Len(a) = 1 THEN first
             ELSE first \o <<sep>> \o Join(Tail(a), sep)

---------------------------------------------------------------------------
(* The constructor (lines 17-28) and the bound request function.           *)

\* As a constructor that binds the username in place of the password.
ConstructWrongPassword(params) ==
    [_baseUrl |-> params.baseUrl,
     _request |-> [auth |-> [username |-> params.username,
                             password |-> params.username],
                   json |-> TRUE]]

\* this._baseUrl = params.baseUrl; this._request = rp.defaults({auth, json})
Construct(params) ==
    [_baseUrl |-> params.baseUrl,
     _request |-> [auth |-> [username |-> params.username,
                             password |-> params.password],
                   json |-> TRUE]]

\* this._request(options): the options of the call over the bound defaults.
_request(options) == options @@ this._request

---------------------------------------------------------------------------
(* The four methods: [threw, options], the options object each passes to   *)
(* this._request, or the exception thrown before the request is built.     *)

Threw(e) == [threw |-> TRUE, error |-> e]
Passes(options) == [threw |-> FALSE, options |-> options]

\* As a list that addresses /application.
listWrongPath ==
    Passes([method |-> "GET",
            uri |-> StringOf(this._baseUrl) \o <<"/", "application">>])

list ==
    Passes([method |-> "GET",
            uri |-> StringOf(this._baseUrl) \o <<"/", "applications">>])

\* As a get that puts the name into the path as given.
getUnencoded(params) ==
    Passes([method |-> "GET",
            uri |-> StringOf(this._baseUrl) \o <<"/", "applications", "/">>
                    \o StringOf(params.applicationName)])

get(params) ==
    LET app == encodeURIComponent(params.applicationName)
    IN  IF app.threw THEN Threw(app.v)
        ELSE Passes([method |-> "GET",
                     uri |-> StringOf(this._baseUrl)
                             \o <<"/", "applications", "/">> \o app.v])

\* As a subscribe that refuses a missing eventSource before any request.
subscribeValidating(params) ==
    LET app == encodeURIComponent(params.applicationName)
    IN  IF params.eventSource = Undefined THEN Threw(<<"TypeError">>)
        ELSE IF app.threw THEN Threw(app.v)
        ELSE Passes([method |-> "POST",
                     uri |-> StringOf(this._baseUrl)
                             \o <<"/", "applications", "/">> \o app.v
                             \o <<"/", "subscription">>,
                     qs |-> [eventSource |->
                                Join(Concat(params.eventSource), ",")]])

subscribe(params) ==
    LET app == encodeURIComponent(params.applicationName)
    IN  IF app.threw THEN Threw(app.v)
        ELSE Passes([method |-> "POST",
                     uri |-> StringOf(this._baseUrl)
                             \o <<"/", "applications", "/">> \o app.v
                             \o <<"/", "subscription">>,
                     qs |-> [eventSource |->
                                Join(Concat(params.eventSource), ",")]])

\* As an unsubscribe that puts the name into the path as given.
unsubscribeUnencoded(params) ==
    Passes([method |-> "DELETE",
            uri |-> StringOf(this._baseUrl) \o <<"/", "applications", "/">>
                    \o StringOf(params.applicationName)
                    \o <<"/", "subscription">>,
            qs |-> [eventSource |-> Join(Concat(params.eventSource), ",")]])

unsubscribe(params) ==
    LET app == encodeURIComponent(params.applicationName)
    IN  IF app.threw THEN Threw(app.v)
        ELSE Passes([method |-> "DELETE",
                     uri |-> StringOf(this._baseUrl)
                             \o <<"/", "applications", "/">> \o app.v
                             \o <<"/", "subscription">>,
                     qs |-> [eventSource |->
                                Join(Concat(params.eventSource), ",")]])

Invoke(op, params) ==
    CASE op = "list" -> list
      [] op = "get" -> get(params)
      [] op = "subscribe" -> subscribe(params)
      [] op = "unsubscribe" -> unsubscribe(params)

---------------------------------------------------------------------------
(* The HTTP layer (request-promise-native with the defaults the constructor *)
(* leaves in place): one outcome per request, and the promise it settles.  *)

NoAnswer == [kind |-> "none", statusCode |-> 0, body |-> <<>>]
Response(status, body) == [kind |-> "response", statusCode |-> status, body |-> body]
TransportError(cause) == [kind |-> "error", statusCode |-> 0, body |-> cause]

Pending == [state |-> "pending", value |-> <<>>]

\* The promise of one request: fulfilled with the parsed body on 2xx,
\* rejected with a StatusCodeError carrying status and body otherwise, and
\* rejected with a RequestError carrying the cause when the transport fails.
Settle(outcome) ==
    IF outcome.kind = "error"
    THEN [state |-> "rejected",
          value |-> [name |-> "RequestError", cause |-> outcome.body]]
    ELSE IF outcome.statusCode \div 100 = 2
    THEN [state |-> "fulfilled", value |-> outcome.body]
    ELSE [state |-> "rejected",
          value |-> [name |-> "StatusCodeError",
                     statusCode |-> outcome.statusCode,
                     error |-> outcome.body]]

\* As a method that attaches a catch handler to the request's promise.
ReturnCaught(settlement) ==
    IF settlement.state = "rejected"
    THEN [state |-> "fulfilled", value |-> <<>>]
    ELSE settlement

\* return this._request({...}): the caller gets the request's own promise,
\* no handler attached (lines 39, 61, 93, 121).
Return(settlement) == settlement

\* As a method that issues its request a second time.
DispatchTwice(options) == <<_request(options), _request(options)>>

\* The requests one method call hands to the HTTP layer: the one
\* this._request({...}) call of its body.
Dispatch(options) == <<_request(options)>>

\* As a client that keeps one completion slot for all its requests.
OwnsAny(call, r) == call.promise # 0

\* The call whose returned promise is the promise of request r.
Owns(call, r) == call.promise = r

---------------------------------------------------------------------------
(* Inputs.                                                                 *)

Configs ==
    {[username |-> Str(<<"user1">>), password |-> Str(<<"pw1">>),
      baseUrl |-> Str(<<"http://pbx1:8088/ari">>)],
     [username |-> Str(<<"user2">>), password |-> Str(<<"pw2">>),
      baseUrl |-> Str(<<"http://pbx2/ari">>)],
     [username |-> Undefined, password |-> Undefined, baseUrl |-> Undefined]}

Params(name, source) == [applicationName |-> name, eventSource |-> source]

\* Spec: a few names and event sources, many interleavings.
CallNames == {Str(<<"app1">>), Str(<<"app", LoneSurrogate>>)}
CallSources == {Str(<<"channel", ":", "1234">>), Arr(<<<<"dev1">>, <<"dev2">>>>)}
CallParams == {Params(n, e) : n \in CallNames, e \in CallSources}

Application(name) ==
    [name |-> name, bridge_ids |-> <<>>, channel_ids |-> <<>>,
     device_names |-> <<>>, endpoint_ids |-> <<>>]
JsonArray(items) == [json |-> "array", items |-> items]
JsonObject(item) == [json |-> "object", items |-> <<item>>]

Outcomes ==
    {Response(200, JsonArray(<<Application("app2"), Application("app1")>>)),
     Response(200, JsonObject(Application("app1"))),
     Response(404, JsonObject([message |-> "Application not found"])),
     Response(409, JsonObject([message |-> "Application not subscribed"])),
     Response(422, JsonObject([message |-> "Event source does not exist"])),
     TransportError(<<"ECONNREFUSED">>)}

\* SpecReq: one params object, drawn from many names or many event sources.
NameChars == {"app1", "subscription", "/", " ", "?", "#", LoneSurrogate}
Names == {Undefined} \cup {Str(s) : s \in SeqsUpTo(NameChars, MaxNameLen)}
SourceStrings == {<<"ch1">>, <<"ch2">>, <<"PJSIP", "/", "6001">>}
Sources ==
    {Undefined} \cup {Str(s) : s \in SourceStrings}
                \cup {Arr(a) : a \in SeqsUpTo(SourceStrings, MaxSources)}
Inputs ==
    {Params(n, e) : n \in Names, e \in {Undefined, Str(<<"ch1">>)}}
    \cup {Params(n, e) : n \in {Undefined, Str(<<"app1">>)}, e \in Sources}

---------------------------------------------------------------------------
(* The state machine.                                                      *)

Start(params0) ==
    /\ constructed = params0
    /\ this = Construct(params0)
    /\ calls = <<>>
    /\ requests = <<>>
    /\ answers = <<>>

Init == \E params0 \in Configs : Start(params0) /\ input = Params(Undefined, Undefined)

InitReq == \E params0 \in Configs : Start(params0) /\ input \in Inputs

\* A method is called: it throws before building its request, or hands its
\* request to the HTTP layer and returns the request's promise.
Call(op, params) ==
    LET r == Invoke(op, params)
    IN  /\ IF r.threw
           THEN /\ calls' = Append(calls,
                        [op |-> op, params |-> params, promise |-> 0,
                         settled |-> [state |-> "threw", value |-> r.error]])
                /\ UNCHANGED <<requests, answers>>
           ELSE LET sent == Dispatch(r.options)
                IN  /\ calls' = Append(calls,
                            [op |-> op, params |-> params,
                             promise |-> Len(requests) + 1,
                             settled |-> Pending])
                    /\ requests' = requests \o sent
                    /\ answers' = answers \o [i \in 1..Len(sent) |-> NoAnswer]
        /\ UNCHANGED <<constructed, this, input>>

List == Call("list", Params(Undefined, Undefined))
Get(params) == Call("get", params)
Subscribe(params) == Call("subscribe", params)
Unsubscribe(params) == Call("unsubscribe", params)

\* The HTTP layer completes request r, and the promise of r settles.
Respond(r, outcome) ==
    /\ answers[r] = NoAnswer
    /\ answers' = [answers EXCEPT ![r] = outcome]
    /\ calls' = [c \in 1..Len(calls) |->
                    IF Owns(calls[c], r) /\ calls[c].settled = Pending
                    THEN [calls[c] EXCEPT !.settled = Return(Settle(outcome))]
                    ELSE calls[c]]
    /\ UNCHANGED <<constructed, this, input, requests>>

Next ==
    \/ Len(calls) < MaxCalls /\ List
    \/ Len(calls) < MaxCalls /\ \E name \in CallNames : Get(Params(name, Undefined))
    \/ Len(calls) < MaxCalls /\ \E params \in CallParams : Subscribe(params)
    \/ Len(calls) < MaxCalls /\ \E params \in CallParams : Unsubscribe(params)
    \/ \E r \in 1..Len(requests), outcome \in Outcomes : Respond(r, outcome)

Spec == Init /\ [][Next]_vars

Called(op) == \E c \in 1..Len(calls) : calls[c].op = op

NextReq ==
    \/ ~Called("list") /\ List
    \/ ~Called("get") /\ Get(input)
    \/ ~Called("subscribe") /\ Subscribe(input)
    \/ ~Called("unsubscribe") /\ Unsubscribe(input)

SpecReq == InitReq /\ [][NextReq]_vars

---------------------------------------------------------------------------
(* Vocabulary of the properties.                                           *)

Issued == {c \in 1..Len(calls) : calls[c].promise # 0}
ThrewCalls == {c \in 1..Len(calls) : calls[c].settled.state = "threw"}
Req(c) == requests[calls[c].promise]
Answer(c) == answers[calls[c].promise]
BaseOf(c) == StringOf(constructed.baseUrl)

\* A string every character of which has a UTF-8 encoding.
WellFormed(x) ==
    x.t = "string" /\ \A i \in 1..Len(x.v) : x.v[i] # LoneSurrogate

Count(s, ch) == Cardinality({i \in 1..Len(s) : s[i] = ch})

\* Where element i of a starts in the comma-joined string, less one.
RECURSIVE Offset(_, _)
Offset(a, i) == IF i = 1 THEN 0 ELSE Offset(a, i - 1) + Len(a[i - 1]) + 1

\* r is the elements of a in their order with one comma between neighbours.
IsCommaJoin(r, a) ==
    IF a = <<>> THEN r = <<>>
    ELSE /\ Len(r) = Offset(a, Len(a)) + Len(a[Len(a)])
         /\ \A i \in 1..Len(a) :
              /\ SubSeq(r, Offset(a, i) + 1, Offset(a, i) + Len(a[i])) = a[i]
              /\ i < Len(a) => r[Offset(a, i) + Len(a[i]) + 1] = ","

\* The settlement hands the caller exactly what the HTTP layer produced.
Carries(settlement, outcome) ==
    CASE outcome.kind = "none" -> settlement = Pending
      [] outcome.kind = "error" ->
            /\ settlement.state = "rejected"
            /\ settlement.value.cause = outcome.body
      [] outcome.kind = "response" /\ outcome.statusCode \in 200..299 ->
            /\ settlement.state = "fulfilled"
            /\ settlement.value = outcome.body
      [] OTHER ->
            /\ settlement.state = "rejected"
            /\ settlement.value.statusCode = outcome.statusCode
            /\ settlement.value.error = outcome.body

\* Every call that did not throw handed exactly one request of its own to
\* the HTTP layer.
OneRequestEach ==
    /\ Len(requests) = Cardinality(Issued)
    /\ \A c \in Issued : calls[c].promise \in 1..Len(requests)
    /\ \A c, d \in Issued : calls[c].promise = calls[d].promise => c = d

---------------------------------------------------------------------------
(* Properties of the requests the methods build (SpecReq).                 *)

\* C1: every subscribe or unsubscribe request carries as eventSource the
\* string itself when eventSource is a string, and the elements in their
\* order with one comma between neighbours when it is a sequence of strings.
C1_EventSourceJoined ==
    \A c \in Issued :
        calls[c].op \in {"subscribe", "unsubscribe"} =>
            LET es == calls[c].params.eventSource
                qs == Req(c).qs
            IN  /\ DOMAIN qs = {"eventSource"}
                /\ es.t = "string" => qs.eventSource = es.v
                /\ es.t = "array" => IsCommaJoin(qs.eventSource, es.v)

C1_Witness ==
    \E c, d \in Issued :
        /\ calls[c].op = "subscribe"
        /\ calls[d].op = "unsubscribe"
        /\ calls[c].params.eventSource = Arr(<<<<"ch1">>, <<"PJSIP", "/", "6001">>>>)
        /\ Req(c).qs.eventSource = <<"ch1", ",", "PJSIP", "/", "6001">>
        /\ Req(d).qs.eventSource = <<"ch1", ",", "PJSIP", "/", "6001">>

\* C2: get with a well-formed applicationName hands the HTTP layer exactly
\* one request, a GET of {baseUrl}/applications/{percent-encoded name} with
\* no query parameters.
C2_GetRequest ==
    /\ OneRequestEach
    /\ \A c \in 1..Len(calls) :
        calls[c].op = "get" /\ WellFormed(calls[c].params.applicationName) =>
            /\ c \in Issued
            /\ Req(c).method = "GET"
            /\ Req(c).uri = BaseOf(c) \o <<"/", "applications", "/">>
                            \o encodeURIComponent(calls[c].params.applicationName).v
            /\ "qs" \notin DOMAIN Req(c)

C2_Witness ==
    \E c \in Issued :
        /\ calls[c].op = "get"
        /\ calls[c].params.applicationName = Str(<<"app1", " ", "?">>)
        /\ Req(c).uri = BaseOf(c) \o <<"/", "applications", "/",
                                       "app1", "%", "2", "0", "%", "3", "F">>

\* C4: subscribe and unsubscribe called with the same arguments on the same
\* client both throw or both issue a request; the two requests have the URI
\* {baseUrl}/applications/{percent-encoded name}/subscription, the same
\* eventSource query value and the same other options, and differ only in
\* the method, POST for subscribe and DELETE for unsubscribe.
C4_SameRequestShape ==
    \A c, d \in 1..Len(calls) :
        /\ calls[c].op = "subscribe"
        /\ calls[d].op = "unsubscribe"
        /\ calls[c].params = calls[d].params
        => /\ c \in Issued <=> d \in Issued
           /\ c \in Issued =>
                /\ Req(c).method = "POST"
                /\ Req(d).method = "DELETE"
                /\ Req(c).uri = BaseOf(c) \o <<"/", "applications", "/">>
                       \o encodeURIComponent(calls[c].params.applicationName).v
                       \o <<"/", "subscription">>
                /\ Req(d).uri = Req(c).uri
                /\ Req(d).qs = Req(c).qs
                /\ [Req(d) EXCEPT !.method = "POST"] = Req(c)

C4_Witness ==
    \E c, d \in Issued :
        /\ calls[c].op = "subscribe"
        /\ calls[d].op = "unsubscribe"
        /\ calls[c].params = Params(Str(<<"app1", "/", "?">>), Str(<<"ch1">>))
        /\ calls[d].params = calls[c].params
        /\ Req(c).uri = Req(d).uri

\* C5: in every request of get, subscribe and unsubscribe the application
\* name is one path segment: what follows the base URL is /applications/,
\* a segment free of space, /, ? and #, and for the subscription methods
\* /subscription; get of "app1/subscription" does not address
\* /applications/app1/subscription.
C5_NameIsOneSegment ==
    \A c \in Issued :
        calls[c].op \in {"get", "subscribe", "unsubscribe"} =>
            LET uri == Req(c).uri
                base == BaseOf(c)
                path == SubSeq(uri, Len(base) + 1, Len(uri))
                tailLen == IF calls[c].op = "get" THEN 0 ELSE 2
                segment == SubSeq(path, 4, Len(path) - tailLen)
            IN  /\ SubSeq(uri, 1, Len(base)) = base
                /\ SubSeq(path, 1, 3) = <<"/", "applications", "/">>
                /\ \A i \in 1..Len(segment) : segment[i] \notin {" ", "/", "?", "#"}
                /\ Count(path, "/") = IF calls[c].op = "get" THEN 2 ELSE 3
                /\ tailLen = 2 =>
                     SubSeq(path, Len(path) - 1, Len(path)) = <<"/", "subscription">>
                /\ calls[c].op = "get" =>
                     path # <<"/", "applications", "/", "app1", "/", "subscription">>

C5_Witness ==
    \E c \in Issued :
        /\ calls[c].op = "get"
        /\ calls[c].params.applicationName = Str(<<"app1", "/", "subscription">>)
        /\ Req(c).uri = BaseOf(c) \o <<"/", "applications", "/",
                                       "app1", "%", "2", "F", "subscription">>

---------------------------------------------------------------------------
(* Properties of calls in flight (Spec).                                   *)

\* C3: whatever the operation, a call whose request was answered with a
\* non-2xx status is rejected with an error carrying that status and that
\* body, and a call whose request failed in transport is rejected with that
\* transport error; no failure is turned into a resolved result.
C3_FailuresRejectVerbatim ==
    \A c \in Issued :
        LET outcome == Answer(c)
            failed == \/ outcome.kind = "error"
                      \/ outcome.kind = "response" /\ outcome.statusCode \notin 200..299
        IN  failed =>
              /\ calls[c].settled.state = "rejected"
              /\ Carries(calls[c].settled, outcome)

C3_Witness ==
    \E c, d \in Issued :
        /\ calls[c].op = "get"
        /\ Answer(c).statusCode = 404
        /\ calls[c].settled.state = "rejected"
        /\ calls[c].settled.value.statusCode = 404
        /\ calls[d].op = "unsubscribe"
        /\ Answer(d).kind = "error"
        /\ calls[d].settled.value.cause = <<"ECONNREFUSED">>

C7_CallsAreIndependent ==
    /\ \A c \in Issued : Carries(calls[c].settled, Answer(c))
    /\ \A c, d \in Issued :
          calls[c].op = calls[d].op /\ calls[c].params = calls[d].params
              => Req(c) = Req(d)

C7_Witness ==
    \E c, d \in Issued :
        /\ c < d
        /\ calls[c].settled = Pending
        /\ calls[d].settled.state = "fulfilled"
        /\ calls[d].settled.value = Answer(d).body
        /\ calls[c].op = calls[d].op
        /\ calls[c].params = calls[d].params

\* C8: the configuration is never mutated: the stored base URL and the bound
\* credentials are those given at construction, and every request issued
\* carries those credentials and the json directive and is addressed under
\* that base URL.
C8_ConfigurationImmutable ==
    /\ this._baseUrl = constructed.baseUrl
    /\ this._request.auth.username = constructed.username
    /\ this._request.auth.password = constructed.password
    /\ this._request.json = TRUE
    /\ \A r \in 1..Len(requests) :
          /\ {"auth", "json"} \subseteq DOMAIN requests[r]
          /\ requests[r].auth = [username |-> constructed.username,
                                 password |-> constructed.password]
          /\ requests[r].json = TRUE
          /\ SubSeq(requests[r].uri, 1, Len(StringOf(constructed.baseUrl)))
                = StringOf(constructed.baseUrl)

C8_Witness ==
    /\ constructed.baseUrl = Str(<<"http://pbx2/ari">>)
    /\ \E c, d \in Issued :
        /\ calls[c].settled.state = "rejected"
        /\ calls[d].settled.state = "fulfilled"
        /\ Req(d).auth.password = Str(<<"pw2">>)

\* C9: list issues one GET of {baseUrl}/applications with no query
\* parameters, and on a 2xx answer resolves with the body of the response
\* unchanged: the same applications in the same order.
C9_ListPassesThrough ==
    /\ OneRequestEach
    /\ \A c \in 1..Len(calls) :
        calls[c].op = "list" =>
            /\ c \in Issued
            /\ Req(c).method = "GET"
            /\ Req(c).uri = BaseOf(c) \o <<"/", "applications">>
            /\ "qs" \notin DOMAIN Req(c)
            /\ Answer(c).kind = "response" /\ Answer(c).statusCode \in 200..299 =>
                 /\ calls[c].settled.state = "fulfilled"
                 /\ calls[c].settled.value = Answer(c).body

C9_Witness ==
    \E c \in Issued :
        /\ calls[c].op = "list"
        /\ calls[c].settled.state = "fulfilled"
        /\ calls[c].settled.value
             = JsonArray(<<Application("app2"), Application("app1")>>)

=============================================================================
